---------------------------- MODULE Spec2Model ----------------------------
(***************************************************************************)
(* A model of the webrtc-client voice-call client.                         *)
(*                                                                         *)
(*   Spec         the session orchestrator (AppState and the operations    *)
(*                of src/src/main.rs that read and write it), together     *)
(*                with the sender task of the installed signaling client   *)
(*   SpecMonitor  the ConnectionMonitor of src/src/connection.rs           *)
(*   SpecQuality  the quality rubric of src/src/metrics.rs                 *)
(*   SpecStats    the statistics polling task of src/src/metrics.rs        *)
(*   SpecRoom     the Room of src/src/room/state.rs                        *)
(*   SpecCodec    the JSON form of SignalingMessage, src/src/signaling.rs  *)
(*   SpecClient   one SignalingClient with its two tasks and its relay     *)
(*                connection, src/src/signaling.rs                         *)
(*   SpecAborting Spec in a runtime that may abort the sender task of a    *)
(*                client before the first message is handed to it          *)
(*                                                                         *)
(* Option<T> is modelled as a sequence of length 0 (None) or 1 (Some) for  *)
(* the signaling handle, and as 0 (None) or a positive identity for the    *)
(* media session and the capture handle.                                   *)
(***************************************************************************)
EXTENDS Integers, Sequences, FiniteSets, TLC

VARIABLES
    \* ---- AppState (src/src/main.rs:32-39)
    signaling,           \* Option<Arc<Mutex<SignalingClient>>>
    webrtc,              \* Option<Arc<WebRTCClient>>: 0 or the session's identity
    audio_capture,       \* Option<AudioCapture>: 0 or the session whose track it feeds
    peer_id,
    room_id,
    reconnect_attempts,
    \* ---- state of the App component that enables its buttons (main.rs:151-152)
    is_connected,
    is_in_call,
    \* ---- control state of the orchestrator
    pc,                  \* where the holder of the AppState lock stands
    ret,                 \* the operation that returned last, and what it returned
    next_conn,           \* identity of the next relay connection that is accepted
    next_sess,           \* identity of the next media session that is created
    \* ---- observation of reconnect (history only, never read by the program)
    relay_contacts,      \* relay connection attempts made by reconnect in the current episode
    episode_done,        \* the current episode ended with a successful reconnect
    episodes_ok,         \* episodes that ended with a successful reconnect
    \* ---- ConnectionMonitor (src/src/connection.rs)
    status,              \* the ConnectionStatus held by the watch channel
    mon_log,             \* the monitor's operations so far, each with the state it published
    \* ---- ConnectionQuality (src/src/metrics.rs)
    cq,                  \* a ConnectionQuality value
    scored,              \* calculate_quality_score ran after the last write of a field
    \* ---- QualityMonitor (src/src/metrics.rs)
    stats,               \* Option<StatsReport> behind the monitor's mutex
    poll_pc,             \* where the polling task stands
    ticks,               \* statistics pulls made so far
    observed,            \* what get_current_stats returned last
    last_good,           \* history: the report of the last pull that succeeded
    last_pull,           \* history: how the last pull ended
    monitor_dropped,     \* the session that owns the monitor was torn down
    ticks_at_drop,       \* history: the pulls made when the session was torn down
    \* ---- Room (src/src/room/state.rs)
    peers,               \* Vec<PeerConnection>: the roster, each entry << id, handle >>
    connected_pairs,     \* HashSet<(String, String)>
    room_ret,            \* the Room operation that returned last, what it returned, and
                         \* (history) the room it was applied to
    \* ---- the JSON form of SignalingMessage (src/src/signaling.rs)
    cmsg,                \* Option: the message handed to serde_json::to_string
    cjson,               \* Option: a text frame
    cback,               \* Option: what serde_json::from_str made of the frame
    \* ---- one SignalingClient and its relay connection (src/src/signaling.rs)
    outgoing,            \* the channel outgoing_tx -> outgoing_rx
    delivery,            \* the channel tx -> rx
    sender_pc,           \* the sender task: "recv", "write" or "done"
    sender_msg,          \* Option: the message the sender task took from outgoing
    receiver_pc,         \* the receiver task: "read", "deliver" or "done"
    receiver_msg,        \* Option: the message the receiver task decoded
    stream,              \* the transport: "open", "closed", "error" or "ended"
    inbound,             \* frames the relay emitted that the receiver task has not read
    written,             \* the frames written to the transport, in order
    client_dropped,      \* the SignalingClient was dropped
    send_ret,            \* the number of send calls, the last one's message and result
    recv_ret,            \* what receive returned last
    submitted,           \* history: the messages that send accepted, in order
    emitted,             \* history: the frames the relay emitted, in order
    received             \* history: the messages that receive yielded, in order

uiVars == << is_connected, is_in_call >>

appVars == << signaling, webrtc, audio_capture, peer_id, room_id, reconnect_attempts,
              uiVars, pc, ret, next_conn, next_sess, relay_contacts, episode_done,
              episodes_ok >>

monVars == << status, mon_log >>

qualVars == << cq, scored >>

dropVars == << monitor_dropped, ticks_at_drop >>
statsVars == << stats, poll_pc, ticks, observed, last_good, last_pull, dropVars >>

roomVars == << peers, connected_pairs, room_ret >>

codecVars == << cmsg, cjson, cback >>

clientVars == << outgoing, delivery, sender_pc, sender_msg, receiver_pc, receiver_msg,
                 stream, inbound, written, client_dropped, send_ret, recv_ret,
                 submitted, emitted, received >>

vars == << appVars, monVars, qualVars, statsVars, roomVars, codecVars, clientVars >>

-----------------------------------------------------------------------------
(* Bounds of the model *)

\* relay connections that are accepted in one behaviour
MaxConns == 2
\* media sessions that are created in one behaviour
MaxSessions == 2
\* messages waiting in a client's outbound queue
MaxOut == 1
\* operations applied to one ConnectionMonitor
MaxLog == 3
\* statistics pulls of one polling task
MaxTicks == 4
\* distinct statistics reports
NumReports == 2
\* media_settings.max_participants of the room
MaxParticipants == 2
\* the capacity of each of the client's two channels (mpsc::channel(100)), scaled
QueueCap == 2
\* send calls on one client
MaxSends == 3
\* frames the relay emits on one connection
MaxFrames == 3

(* Program constants *)

MAX_RECONNECT_ATTEMPTS == 5

PeerIds == {"user-1", "user-2"}
RoomIds == {"test-room"}
\* remote peers a call can be addressed to
RemotePeers == {"u2", "u3"}
\* the remote peer whose CallRequest and Offer arrive
Callers == {"u2"}

-----------------------------------------------------------------------------
(* SignalingMessage values built by the orchestrator *)

Join(r, p) == [message_type |-> "Join", room_id |-> r, peer_id |-> p]

EndCall(r, p) == [message_type |-> "EndCall", room_id |-> r, peer_id |-> p]

CallRequest(r, from, to) ==
    [message_type |-> "CallRequest", room_id |-> r, from_peer |-> from, to_peers |-> to]

CallResponse(r, from, to, acc) ==
    [message_type |-> "CallResponse", room_id |-> r, from_peer |-> from, to_peer |-> to,
     accepted |-> acc]

Answer(r, sdp, from, to) ==
    [message_type |-> "Answer", room_id |-> r, sdp |-> sdp, from_peer |-> from,
     to_peer |-> to]

-----------------------------------------------------------------------------
(* SignalingClient, as the orchestrator sees it: the outbound queue that    *)
(* send fills and the sender task drains, and whether the sender task has   *)
(* dropped the queue's receiving end.                                       *)

NewClient(id) == [id |-> id, out |-> << >>, closed |-> FALSE]

\* SignalingClient::send: fails when the outbound path is closed
Send(c, m) ==
    IF c.closed
    THEN [ok |-> FALSE, client |-> c]
    ELSE [ok |-> TRUE, client |-> [c EXCEPT !.out = Append(@, m)]]

\* a send completes at once unless the bounded queue is full
HasRoom(c) == IF c.closed THEN TRUE ELSE Len(c.out) < MaxOut

SigHasRoom == IF signaling = << >> THEN TRUE ELSE HasRoom(signaling[1])

-----------------------------------------------------------------------------
Result(op, arg, res) == [op |-> op, arg |-> arg, res |-> res]

AppInit ==
    /\ signaling = << >>
    /\ webrtc = 0
    /\ audio_capture = 0
    /\ peer_id \in PeerIds
    /\ room_id \in RoomIds
    /\ reconnect_attempts = 0
    /\ is_connected = FALSE
    /\ is_in_call = FALSE
    /\ pc = "idle"
    /\ ret = Result("none", "none", "none")
    /\ next_conn = 1
    /\ next_sess = 1
    /\ relay_contacts = 0
    /\ episode_done = FALSE
    /\ episodes_ok = 0

-----------------------------------------------------------------------------
(* AppState::reconnect *)

\* the fields of AppState, as one value
AppState ==
    [signaling |-> signaling, webrtc |-> webrtc, audio_capture |-> audio_capture,
     peer_id |-> peer_id, room_id |-> room_id, reconnect_attempts |-> reconnect_attempts]

\* the fields of AppState become those of st
Becomes(st) ==
    /\ signaling' = st.signaling
    /\ webrtc' = st.webrtc
    /\ audio_capture' = st.audio_capture
    /\ peer_id' = st.peer_id
    /\ room_id' = st.room_id
    /\ reconnect_attempts' = st.reconnect_attempts

AtCap_OffByOne(n) == n > MAX_RECONNECT_ATTEMPTS

\* the guard of reconnect
AtCap(n) == n >= MAX_RECONNECT_ATTEMPTS

ReconnectRefused_CountsOn(kind) ==
    /\ pc = "idle"
    /\ AtCap(reconnect_attempts)
    /\ reconnect_attempts' = reconnect_attempts + 1
    /\ ret' = Result("handle_connection_error", kind, "ErrMaxAttempts")
    /\ UNCHANGED << signaling, webrtc, audio_capture, peer_id, room_id,
                    pc, next_conn, next_sess,
                    relay_contacts, episode_done, episodes_ok >>
    /\ UNCHANGED << uiVars, monVars, qualVars, statsVars, roomVars, codecVars, clientVars >>

\* reconnect is refused at the cap: nothing but the returned error changes
ReconnectRefused(kind) ==
    /\ pc = "idle"
    /\ AtCap(reconnect_attempts)
    /\ ret' = Result("handle_connection_error", kind, "ErrMaxAttempts")
    /\ UNCHANGED << signaling, webrtc, audio_capture, peer_id, room_id,
                    reconnect_attempts, pc, next_conn, next_sess,
                    relay_contacts, episode_done, episodes_ok >>
    /\ UNCHANGED << uiVars, monVars, qualVars, statsVars, roomVars, codecVars, clientVars >>

\* reconnect counts the attempt and starts its delay, holding AppState
ReconnectBegin(kind) ==
    /\ pc = "idle"
    /\ ~AtCap(reconnect_attempts)
    /\ reconnect_attempts' = reconnect_attempts + 1
    /\ pc' = "reconnect_sleep"
    /\ ret' = Result("handle_connection_error", kind, "pending")
    /\ relay_contacts' = IF episode_done THEN 0 ELSE relay_contacts
    /\ episode_done' = FALSE
    /\ UNCHANGED << signaling, webrtc, audio_capture, peer_id, room_id,
                    next_conn, next_sess, episodes_ok >>
    /\ UNCHANGED << uiVars, monVars, qualVars, statsVars, roomVars, codecVars, clientVars >>

reconnect_on_InstallsFirst(st, client) ==
    LET sent == Send(client, Join(st.room_id, st.peer_id))
    IN  [res |-> IF sent.ok THEN "Ok" ELSE "ErrSend",
         st |-> [st EXCEPT !.signaling = << sent.client >>,
                           !.reconnect_attempts = 0]]

\* the Ok arm of reconnect's match on the client that connect returned: Join
\* is sent for the current room and peer; when send refuses it the `?` returns
\* the error before the handle is installed and before the counter is reset
reconnect_on(st, client) ==
    LET sent == Send(client, Join(st.room_id, st.peer_id))
    IN  IF sent.ok
        THEN [res |-> "Ok",
              st |-> [st EXCEPT !.signaling = << sent.client >>,
                                !.reconnect_attempts = 0]]
        ELSE [res |-> "ErrSend", st |-> st]

\* a client whose sender task has ended, so that its outbound channel has no
\* receiver left
Orphaned(c) == [c EXCEPT !.closed = TRUE]

reconnect_connected_CounterKept(st, id) ==
    LET sent == Send(NewClient(id), Join(st.room_id, st.peer_id))
    IN  IF sent.ok
        THEN [res |-> "Ok", st |-> [st EXCEPT !.signaling = << sent.client >>]]
        ELSE [res |-> "ErrSend", st |-> st]

reconnect_connected_NoJoin(st, id) ==
    [res |-> "Ok",
     st |-> [st EXCEPT !.signaling = << NewClient(id) >>, !.reconnect_attempts = 0]]

reconnect_connected_NewSession(st, id) ==
    LET sent == Send(NewClient(id), Join(st.room_id, st.peer_id))
    IN  IF sent.ok
        THEN [res |-> "Ok",
              st |-> [st EXCEPT !.signaling = << sent.client >>,
                                !.reconnect_attempts = 0,
                                !.webrtc = IF @ = 0 THEN id ELSE @]]
        ELSE [res |-> "ErrSend", st |-> st]

\* the Ok arm of reconnect's match, on the connection id that the relay
\* accepted: Join is sent for the current room and peer, and only when send
\* took it is the handle installed and the counter reset
reconnect_connected(st, id) ==
    LET sent == Send(NewClient(id), Join(st.room_id, st.peer_id))
    IN  IF sent.ok
        THEN [res |-> "Ok",
              st |-> [st EXCEPT !.signaling = << sent.client >>,
                                !.reconnect_attempts = 0]]
        ELSE [res |-> "ErrSend", st |-> st]

\* after the delay the relay accepts the connection
ReconnectConnected ==
    /\ pc = "reconnect_sleep"
    /\ next_conn <= MaxConns
    /\ LET r == reconnect_connected(AppState, next_conn)
       IN  /\ Becomes(r.st)
           /\ ret' = Result(ret.op, ret.arg, r.res)
           /\ episode_done' = (r.res = "Ok")
           /\ episodes_ok' = IF r.res = "Ok" THEN episodes_ok + 1 ELSE episodes_ok
    /\ next_conn' = next_conn + 1
    /\ relay_contacts' = relay_contacts + 1
    /\ pc' = "idle"
    /\ UNCHANGED next_sess
    /\ UNCHANGED << uiVars, monVars, qualVars, statsVars, roomVars, codecVars, clientVars >>

\* after the delay the relay accepts the connection, and the sender task of
\* the new client is gone before the Join is enqueued: send returns an error
ReconnectJoinRefused ==
    /\ pc = "reconnect_sleep"
    /\ next_conn <= MaxConns
    /\ LET r == reconnect_on(AppState, Orphaned(NewClient(next_conn)))
       IN  /\ Becomes(r.st)
           /\ ret' = Result(ret.op, ret.arg, r.res)
           /\ episode_done' = (r.res = "Ok")
           /\ episodes_ok' = IF r.res = "Ok" THEN episodes_ok + 1 ELSE episodes_ok
    /\ next_conn' = next_conn + 1
    /\ relay_contacts' = relay_contacts + 1
    /\ pc' = "idle"
    /\ UNCHANGED next_sess
    /\ UNCHANGED << uiVars, monVars, qualVars, statsVars, roomVars, codecVars, clientVars >>

\* after the delay the relay connection fails: the error is returned
ReconnectFailed ==
    /\ pc = "reconnect_sleep"
    /\ relay_contacts' = relay_contacts + 1
    /\ pc' = "idle"
    /\ ret' = Result(ret.op, ret.arg, "ErrReconnectFailed")
    /\ UNCHANGED << signaling, webrtc, audio_capture, peer_id, room_id,
                    reconnect_attempts, next_conn, next_sess, episode_done,
                    episodes_ok >>
    /\ UNCHANGED << uiVars, monVars, qualVars, statsVars, roomVars, codecVars, clientVars >>

-----------------------------------------------------------------------------
(* AppState::cleanup_call and AppState::handle_connection_error *)

\* the EndCall notification of cleanup_call and end_call: its result is ignored
NotifyEndCall(sig, r, p) ==
    IF sig = << >> THEN sig ELSE << Send(sig[1], EndCall(r, p)).client >>

HandleWebRTCError_CountsAttempt ==
    /\ pc = "idle"
    /\ SigHasRoom
    /\ webrtc' = 0
    /\ audio_capture' = 0
    /\ signaling' = NotifyEndCall(signaling, room_id, peer_id)
    /\ reconnect_attempts' =
          IF AtCap(reconnect_attempts) THEN reconnect_attempts ELSE reconnect_attempts + 1
    /\ ret' = Result("handle_connection_error", "WebRTC", "ErrWebRTC")
    /\ UNCHANGED << peer_id, room_id, pc, next_conn, next_sess,
                    relay_contacts, episode_done, episodes_ok >>
    /\ UNCHANGED << uiVars, monVars, qualVars, statsVars, roomVars, codecVars, clientVars >>

\* a fatal media-engine error: the call is cleaned up and the error returned
HandleWebRTCError ==
    /\ pc = "idle"
    /\ SigHasRoom
    /\ webrtc' = 0
    /\ audio_capture' = 0
    /\ signaling' = NotifyEndCall(signaling, room_id, peer_id)
    /\ ret' = Result("handle_connection_error", "WebRTC", "ErrWebRTC")
    /\ UNCHANGED << peer_id, room_id, reconnect_attempts, pc, next_conn, next_sess,
                    relay_contacts, episode_done, episodes_ok >>
    /\ UNCHANGED << uiVars, monVars, qualVars, statsVars, roomVars, codecVars, clientVars >>

\* an audio error is logged and suppressed
HandleAudioError ==
    /\ pc = "idle"
    /\ ret' = Result("handle_connection_error", "Audio", "Ok")
    /\ UNCHANGED << signaling, webrtc, audio_capture, peer_id, room_id,
                    reconnect_attempts, pc, next_conn, next_sess,
                    relay_contacts, episode_done, episodes_ok >>
    /\ UNCHANGED << uiVars, monVars, qualVars, statsVars, roomVars, codecVars, clientVars >>

\* any other error is returned as it came
HandleOtherError(kind) ==
    /\ pc = "idle"
    /\ ret' = Result("handle_connection_error", kind, "ErrOther")
    /\ UNCHANGED << signaling, webrtc, audio_capture, peer_id, room_id,
                    reconnect_attempts, pc, next_conn, next_sess,
                    relay_contacts, episode_done, episodes_ok >>
    /\ UNCHANGED << uiVars, monVars, qualVars, statsVars, roomVars, codecVars, clientVars >>

-----------------------------------------------------------------------------
(* User intents: the connect, start_call and end_call handlers of App, each   *)
(* behind the condition that enables its button (main.rs:325, 346, 351)      *)

\* connect: the relay accepts, Join is sent and the handle installed
ConnectOk ==
    /\ pc = "idle"
    /\ ~is_connected
    /\ next_conn <= MaxConns
    /\ LET sent == Send(NewClient(next_conn), Join(room_id, peer_id))
       IN  /\ sent.ok
           /\ signaling' = << sent.client >>
    /\ next_conn' = next_conn + 1
    /\ ret' = Result("connect", "none", "Ok")
    /\ UNCHANGED << webrtc, audio_capture, peer_id, room_id, reconnect_attempts, pc,
                    next_sess, relay_contacts, episode_done, episodes_ok >>
    /\ is_connected' = TRUE
    /\ UNCHANGED is_in_call
    /\ UNCHANGED << monVars, qualVars, statsVars, roomVars, codecVars, clientVars >>

\* connect: the relay refuses, nothing is installed
ConnectFail ==
    /\ pc = "idle"
    /\ ~is_connected
    /\ ret' = Result("connect", "none", "ErrConnect")
    /\ UNCHANGED << signaling, webrtc, audio_capture, peer_id, room_id,
                    reconnect_attempts, pc, next_conn, next_sess,
                    relay_contacts, episode_done, episodes_ok >>
    /\ UNCHANGED uiVars
    /\ UNCHANGED << monVars, qualVars, statsVars, roomVars, codecVars, clientVars >>

\* start_call: WebRTCClient::new fails, nothing was created
StartCallEngineFail(selected_peers) ==
    /\ pc = "idle"
    /\ is_connected /\ ~is_in_call
    /\ webrtc = 0
    /\ ret' = Result("start_call", "none", "ErrWebRTC")
    /\ UNCHANGED << signaling, webrtc, audio_capture, peer_id, room_id,
                    reconnect_attempts, pc, next_conn, next_sess,
                    relay_contacts, episode_done, episodes_ok >>
    /\ UNCHANGED uiVars
    /\ UNCHANGED << monVars, qualVars, statsVars, roomVars, codecVars, clientVars >>

\* start_call: the session is created and AudioCapture::new fails; the
\* function returns there, the session stays
StartCallAudioFail(selected_peers) ==
    /\ pc = "idle"
    /\ is_connected /\ ~is_in_call
    /\ webrtc = 0
    /\ next_sess <= MaxSessions
    /\ webrtc' = next_sess
    /\ next_sess' = next_sess + 1
    /\ ret' = Result("start_call", "none", "ErrAudio")
    /\ UNCHANGED << signaling, audio_capture, peer_id, room_id, reconnect_attempts,
                    pc, next_conn, relay_contacts, episode_done, episodes_ok >>
    /\ UNCHANGED uiVars
    /\ UNCHANGED << monVars, qualVars, statsVars, roomVars, codecVars, clientVars >>

\* start_call: the session and the capture exist (created now when there
\* was no session) and the CallRequest is sent on the signaling client
StartCall(selected_peers) ==
    /\ pc = "idle"
    /\ is_connected /\ ~is_in_call
    /\ SigHasRoom
    /\ IF webrtc = 0
       THEN /\ next_sess <= MaxSessions
            /\ webrtc' = next_sess
            /\ audio_capture' = next_sess
            /\ next_sess' = next_sess + 1
       ELSE UNCHANGED << webrtc, audio_capture, next_sess >>
    /\ IF signaling = << >>
       THEN /\ ret' = Result("start_call", "none", "Ok")
            /\ UNCHANGED signaling
       ELSE LET sent == Send(signaling[1], CallRequest(room_id, peer_id, selected_peers))
            IN  /\ signaling' = << sent.client >>
                /\ ret' = Result("start_call", "none",
                                 IF sent.ok THEN "Ok" ELSE "ErrSend")
    /\ UNCHANGED << peer_id, room_id, reconnect_attempts, pc, next_conn,
                    relay_contacts, episode_done, episodes_ok >>
    /\ is_in_call' = (ret'.res = "Ok")
    /\ UNCHANGED is_connected
    /\ UNCHANGED << monVars, qualVars, statsVars, roomVars, codecVars, clientVars >>

EndCallUser_OnlyWhenNotified ==
    /\ pc = "idle"
    /\ is_in_call
    /\ SigHasRoom
    /\ webrtc' = IF signaling = << >> THEN webrtc
                 ELSE IF signaling[1].closed THEN webrtc ELSE 0
    /\ audio_capture' = IF signaling = << >> THEN audio_capture
                        ELSE IF signaling[1].closed THEN audio_capture ELSE 0
    /\ signaling' = NotifyEndCall(signaling, room_id, peer_id)
    /\ ret' = Result("end_call", "none", "Ok")
    /\ UNCHANGED << peer_id, room_id, reconnect_attempts, pc, next_conn, next_sess,
                    relay_contacts, episode_done, episodes_ok >>
    /\ is_in_call' = FALSE
    /\ UNCHANGED is_connected
    /\ UNCHANGED << monVars, qualVars, statsVars, roomVars, codecVars, clientVars >>

\* end_call: both handles are dropped and EndCall is sent, its result ignored
EndCallUser ==
    /\ pc = "idle"
    /\ is_in_call
    /\ SigHasRoom
    /\ webrtc' = 0
    /\ audio_capture' = 0
    /\ signaling' = NotifyEndCall(signaling, room_id, peer_id)
    /\ ret' = Result("end_call", "none", "Ok")
    /\ UNCHANGED << peer_id, room_id, reconnect_attempts, pc, next_conn, next_sess,
                    relay_contacts, episode_done, episodes_ok >>
    /\ is_in_call' = FALSE
    /\ UNCHANGED is_connected
    /\ UNCHANGED << monVars, qualVars, statsVars, roomVars, codecVars, clientVars >>

-----------------------------------------------------------------------------
(* handle_signaling_message: the dispatch on the inbound message's variant *)

\* what the handler returns when a reply was to be sent on the signaling client
Replied(sig, m) ==
    IF sig = << >> THEN "Ok" ELSE IF Send(sig[1], m).ok THEN "Ok" ELSE "ErrSend"

\* the signaling handle after the reply was handed to send
AfterReply(sig, m) ==
    IF sig = << >> THEN sig ELSE << Send(sig[1], m).client >>

\* Error{message}: returned as a signaling error
OnError ==
    /\ pc = "idle"
    /\ ret' = Result("handle_signaling_message", "Error", "ErrSignaling")
    /\ UNCHANGED << signaling, webrtc, audio_capture, peer_id, room_id,
                    reconnect_attempts, pc, next_conn, next_sess,
                    relay_contacts, episode_done, episodes_ok >>
    /\ UNCHANGED << uiVars, monVars, qualVars, statsVars, roomVars, codecVars, clientVars >>

OnConnectionLost_CaptureKept ==
    /\ pc = "idle"
    /\ IF webrtc # 0
       THEN /\ SigHasRoom
            /\ webrtc' = 0
            /\ audio_capture' = audio_capture
            /\ signaling' = NotifyEndCall(signaling, room_id, peer_id)
       ELSE UNCHANGED << signaling, webrtc, audio_capture >>
    /\ ret' = Result("handle_signaling_message", "ConnectionLost", "Ok")
    /\ UNCHANGED << peer_id, room_id, reconnect_attempts, pc, next_conn, next_sess,
                    relay_contacts, episode_done, episodes_ok >>
    /\ UNCHANGED << uiVars, monVars, qualVars, statsVars, roomVars, codecVars, clientVars >>

OnConnectionLost_Unlocked ==
    /\ IF webrtc # 0
       THEN /\ SigHasRoom
            /\ webrtc' = 0
            /\ audio_capture' = 0
            /\ signaling' = NotifyEndCall(signaling, room_id, peer_id)
       ELSE UNCHANGED << signaling, webrtc, audio_capture >>
    /\ ret' = Result("handle_signaling_message", "ConnectionLost", "Ok")
    /\ UNCHANGED << peer_id, room_id, reconnect_attempts, pc, next_conn, next_sess,
                    relay_contacts, episode_done, episodes_ok >>
    /\ UNCHANGED << uiVars, monVars, qualVars, statsVars, roomVars, codecVars, clientVars >>

\* ConnectionLost{peer_id}: the call is cleaned up when a session exists
OnConnectionLost ==
    /\ pc = "idle"
    /\ IF webrtc # 0
       THEN /\ SigHasRoom
            /\ webrtc' = 0
            /\ audio_capture' = 0
            /\ signaling' = NotifyEndCall(signaling, room_id, peer_id)
       ELSE UNCHANGED << signaling, webrtc, audio_capture >>
    /\ ret' = Result("handle_signaling_message", "ConnectionLost", "Ok")
    /\ UNCHANGED << peer_id, room_id, reconnect_attempts, pc, next_conn, next_sess,
                    relay_contacts, episode_done, episodes_ok >>
    /\ UNCHANGED << uiVars, monVars, qualVars, statsVars, roomVars, codecVars, clientVars >>

\* CallRequest with no session: WebRTCClient::new fails and the error is returned
OnCallRequestEngineFail ==
    /\ pc = "idle"
    /\ webrtc = 0
    /\ ret' = Result("handle_signaling_message", "CallRequest", "ErrWebRTC")
    /\ UNCHANGED << signaling, webrtc, audio_capture, peer_id, room_id,
                    reconnect_attempts, pc, next_conn, next_sess,
                    relay_contacts, episode_done, episodes_ok >>
    /\ UNCHANGED << uiVars, monVars, qualVars, statsVars, roomVars, codecVars, clientVars >>

\* CallRequest{from_peer, room_id}: a session is created when there is none,
\* and CallResponse{accepted: true} is sent to the requester
OnCallRequest(from, r) ==
    /\ pc = "idle"
    /\ SigHasRoom
    /\ IF webrtc = 0
       THEN /\ next_sess <= MaxSessions
            /\ webrtc' = next_sess
            /\ next_sess' = next_sess + 1
       ELSE UNCHANGED << webrtc, next_sess >>
    /\ signaling' = AfterReply(signaling, CallResponse(r, peer_id, from, TRUE))
    /\ ret' = Result("handle_signaling_message", "CallRequest",
                     Replied(signaling, CallResponse(r, peer_id, from, TRUE)))
    /\ UNCHANGED << audio_capture, peer_id, room_id, reconnect_attempts, pc,
                    next_conn, relay_contacts, episode_done, episodes_ok >>
    /\ UNCHANGED << uiVars, monVars, qualVars, statsVars, roomVars, codecVars, clientVars >>

OnEngineMessageNoSession_Rejects(type) ==
    /\ pc = "idle"
    /\ webrtc = 0
    /\ ret' = Result("handle_signaling_message", type, "ErrWebRTC")
    /\ UNCHANGED << signaling, webrtc, audio_capture, peer_id, room_id,
                    reconnect_attempts, pc, next_conn, next_sess,
                    relay_contacts, episode_done, episodes_ok >>
    /\ UNCHANGED << uiVars, monVars, qualVars, statsVars, roomVars, codecVars, clientVars >>

\* Offer, Answer or IceCandidate with no session: nothing is done
OnEngineMessageNoSession(type) ==
    /\ pc = "idle"
    /\ webrtc = 0
    /\ ret' = Result("handle_signaling_message", type, "Ok")
    /\ UNCHANGED << signaling, webrtc, audio_capture, peer_id, room_id,
                    reconnect_attempts, pc, next_conn, next_sess,
                    relay_contacts, episode_done, episodes_ok >>
    /\ UNCHANGED << uiVars, monVars, qualVars, statsVars, roomVars, codecVars, clientVars >>

\* Offer, Answer or IceCandidate with a session: the engine refuses it
OnEngineMessageFail(type) ==
    /\ pc = "idle"
    /\ webrtc # 0
    /\ ret' = Result("handle_signaling_message", type, "ErrWebRTC")
    /\ UNCHANGED << signaling, webrtc, audio_capture, peer_id, room_id,
                    reconnect_attempts, pc, next_conn, next_sess,
                    relay_contacts, episode_done, episodes_ok >>
    /\ UNCHANGED << uiVars, monVars, qualVars, statsVars, roomVars, codecVars, clientVars >>

\* Offer{sdp, from_peer, room_id} with a session: the engine's answer is sent
OnOffer(from, r) ==
    /\ pc = "idle"
    /\ webrtc # 0
    /\ SigHasRoom
    /\ signaling' = AfterReply(signaling, Answer(r, "answer", peer_id, from))
    /\ ret' = Result("handle_signaling_message", "Offer",
                     Replied(signaling, Answer(r, "answer", peer_id, from)))
    /\ UNCHANGED << webrtc, audio_capture, peer_id, room_id, reconnect_attempts, pc,
                    next_conn, next_sess, relay_contacts, episode_done, episodes_ok >>
    /\ UNCHANGED << uiVars, monVars, qualVars, statsVars, roomVars, codecVars, clientVars >>

\* Answer or IceCandidate with a session: applied to the engine
OnAnswerOrCandidate(type) ==
    /\ pc = "idle"
    /\ webrtc # 0
    /\ ret' = Result("handle_signaling_message", type, "Ok")
    /\ UNCHANGED << signaling, webrtc, audio_capture, peer_id, room_id,
                    reconnect_attempts, pc, next_conn, next_sess,
                    relay_contacts, episode_done, episodes_ok >>
    /\ UNCHANGED << uiVars, monVars, qualVars, statsVars, roomVars, codecVars, clientVars >>

\* every other variant is ignored
OnIgnored(type) ==
    /\ pc = "idle"
    /\ ret' = Result("handle_signaling_message", type, "Ok")
    /\ UNCHANGED << signaling, webrtc, audio_capture, peer_id, room_id,
                    reconnect_attempts, pc, next_conn, next_sess,
                    relay_contacts, episode_done, episodes_ok >>
    /\ UNCHANGED << uiVars, monVars, qualVars, statsVars, roomVars, codecVars, clientVars >>

-----------------------------------------------------------------------------
(* The sender task of the installed client (SignalingClient::connect) *)

\* the task takes the next message and writes it to the transport
SenderWrites ==
    /\ signaling # << >>
    /\ ~signaling[1].closed
    /\ signaling[1].out # << >>
    /\ signaling' = << [signaling[1] EXCEPT !.out = Tail(@)] >>
    /\ UNCHANGED << webrtc, audio_capture, peer_id, room_id, reconnect_attempts, pc,
                    ret, next_conn, next_sess, relay_contacts, episode_done, episodes_ok >>
    /\ UNCHANGED << uiVars, monVars, qualVars, statsVars, roomVars, codecVars, clientVars >>

\* the write fails: the task ends and drops the queue's receiving end
SenderWriteFails ==
    /\ signaling # << >>
    /\ ~signaling[1].closed
    /\ signaling[1].out # << >>
    /\ signaling' = << [signaling[1] EXCEPT !.out = << >>, !.closed = TRUE] >>
    /\ UNCHANGED << webrtc, audio_capture, peer_id, room_id, reconnect_attempts, pc,
                    ret, next_conn, next_sess, relay_contacts, episode_done, episodes_ok >>
    /\ UNCHANGED << uiVars, monVars, qualVars, statsVars, roomVars, codecVars, clientVars >>

-----------------------------------------------------------------------------
(* ConnectionMonitor (src/src/connection.rs) *)

ConnectionStates == {"Disconnected", "Connecting", "Connected", "Failed", "Reconnecting"}

\* RTCIceConnectionState
IceStates == {"Unspecified", "New", "Checking", "Connected", "Completed",
              "Disconnected", "Failed", "Closed"}

\* three of the values of RTCPeerConnectionState
PeerStates == {"New", "Connecting", "Connected"}

\* three of the values of RTCSignalingState
SignalingStates == {"Stable", "HaveLocalOffer", "HaveRemoteOffer"}

ErrorMessages == {"relay lost", "engine failed"}

\* ConnectionStatus::default
DefaultStatus ==
    [state |-> "Disconnected", signaling_state |-> "Stable", ice_state |-> "New",
     peer_state |-> "New", last_error |-> << >>]

StateForIce_CheckingIgnored(ice, cur) ==
    CASE ice = "Connected" -> "Connected"
      [] ice = "Failed" -> "Failed"
      [] ice = "Disconnected" -> "Disconnected"
      [] OTHER -> cur

\* the match of update_ice_state
StateForIce(ice, cur) ==
    CASE ice = "Connected" -> "Connected"
      [] ice = "Failed" -> "Failed"
      [] ice = "Disconnected" -> "Disconnected"
      [] ice = "Checking" -> "Connecting"
      [] OTHER -> cur

update_state(st, s) == [st EXCEPT !.state = s]

update_signaling_state(st, s) == [st EXCEPT !.signaling_state = s]

update_ice_state_ClearsError(st, s) ==
    [st EXCEPT !.ice_state = s, !.state = StateForIce(s, st.state),
               !.last_error = IF s = "Connected" THEN << >> ELSE @]

update_ice_state(st, s) ==
    [st EXCEPT !.ice_state = s, !.state = StateForIce(s, st.state)]

update_peer_state(st, s) == [st EXCEPT !.peer_state = s]

set_error_StateKept(st, m) == [st EXCEPT !.last_error = << m >>]

set_error(st, m) == [st EXCEPT !.last_error = << m >>, !.state = "Failed"]

\* one operation of the monitor: the status is modified in place and the
\* watch channel publishes it
Published(op, arg, st) ==
    /\ Len(mon_log) < MaxLog
    /\ status' = st
    /\ mon_log' = Append(mon_log, [op |-> op, arg |-> arg, state |-> st.state])
    /\ UNCHANGED << appVars, qualVars, statsVars, roomVars, codecVars, clientVars >>

UpdateState(s) == Published("update_state", s, update_state(status, s))

UpdateSignalingState(s) ==
    Published("update_signaling_state", s, update_signaling_state(status, s))

UpdateIceState(s) == Published("update_ice_state", s, update_ice_state(status, s))

UpdatePeerState(s) == Published("update_peer_state", s, update_peer_state(status, s))

SetError(m) == Published("set_error", m, set_error(status, m))

MonInit ==
    /\ status = DefaultStatus
    /\ mon_log = << >>

NextMonitor ==
    \/ \E s \in ConnectionStates : UpdateState(s)
    \/ \E s \in SignalingStates : UpdateSignalingState(s)
    \/ \E s \in IceStates : UpdateIceState(s)
    \/ \E s \in PeerStates : UpdatePeerState(s)
    \/ \E m \in ErrorMessages : SetError(m)

-----------------------------------------------------------------------------
(* ConnectionQuality (src/src/metrics.rs).  An f64 is a record: nan says   *)
(* whether it is NaN, v is its value in tenths (100 ms is 1000, 0.5 % is   *)
(* 5).  Every comparison with NaN is false.                                *)

F(v) == [nan |-> FALSE, v |-> v]

NaN == [nan |-> TRUE, v |-> 0]

\* x < t for an f64 x and a threshold t in tenths
Lt(x, t) == IF x.nan THEN FALSE ELSE x.v < t

\* the thresholds of calculate_quality_score, in tenths
RTT_GOOD == 1500
RTT_FAIR == 3000
JITTER_GOOD == 300
JITTER_FAIR == 500
LOSS_GOOD == 10
LOSS_FAIR == 30
LOSS_POOR == 50

rtt_score(q) ==
    IF Lt(q.round_trip_time, RTT_GOOD) THEN 40
    ELSE IF Lt(q.round_trip_time, RTT_FAIR) THEN 30
    ELSE 20

jitter_score_NoPoorBand(q) ==
    IF Lt(q.jitter, JITTER_GOOD) THEN 20 ELSE 15

jitter_score(q) ==
    IF Lt(q.jitter, JITTER_GOOD) THEN 20
    ELSE IF Lt(q.jitter, JITTER_FAIR) THEN 15
    ELSE 10

loss_score_ZeroFloor(q) ==
    IF Lt(q.packet_loss_rate, LOSS_GOOD) THEN 40
    ELSE IF Lt(q.packet_loss_rate, LOSS_FAIR) THEN 30
    ELSE IF Lt(q.packet_loss_rate, LOSS_POOR) THEN 20
    ELSE 0

loss_score(q) ==
    IF Lt(q.packet_loss_rate, LOSS_GOOD) THEN 40
    ELSE IF Lt(q.packet_loss_rate, LOSS_FAIR) THEN 30
    ELSE IF Lt(q.packet_loss_rate, LOSS_POOR) THEN 20
    ELSE 10

\* the cast "as u8" of an i32
AsU8(n) == n % 256

calculate_quality_score(q) ==
    [q EXCEPT !.quality_score = AsU8(rtt_score(q) + jitter_score(q) + loss_score(q))]

\* ConnectionQuality::default
DefaultQuality ==
    [round_trip_time |-> F(0), jitter |-> F(0), packet_loss_rate |-> F(0),
     audio_level |-> F(-1270), bitrate |-> F(0), quality_score |-> 100]

\* values on both sides of every threshold, a negative one and NaN
RttValues == {F(-10), F(0), F(1000), F(1499), F(1500), F(2999), F(3000), F(5000), NaN}
JitterValues == {F(0), F(100), F(299), F(300), F(499), F(500), F(1000), NaN}
LossValues == {F(0), F(5), F(9), F(10), F(29), F(30), F(49), F(50), F(100), NaN}
LevelValues == {F(-1270), F(0)}
BitrateValues == {F(0), F(640)}

\* the fields are public: a sample writes a metric, never the score
WriteMetric(field, v) ==
    /\ cq' = [cq EXCEPT ![field] = v]
    /\ scored' = FALSE
    /\ UNCHANGED << appVars, monVars, statsVars, roomVars, codecVars, clientVars >>

CalculateQualityScore ==
    /\ cq' = calculate_quality_score(cq)
    /\ scored' = TRUE
    /\ UNCHANGED << appVars, monVars, statsVars, roomVars, codecVars, clientVars >>

QualInit ==
    /\ cq = DefaultQuality
    /\ scored = FALSE

NextQuality ==
    \/ \E v \in RttValues : WriteMetric("round_trip_time", v)
    \/ \E v \in JitterValues : WriteMetric("jitter", v)
    \/ \E v \in LossValues : WriteMetric("packet_loss_rate", v)
    \/ \E v \in LevelValues : WriteMetric("audio_level", v)
    \/ \E v \in BitrateValues : WriteMetric("bitrate", v)
    \/ CalculateQualityScore

-----------------------------------------------------------------------------
(* QualityMonitor (src/src/metrics.rs): the polling task of start_monitoring *)

Reports == 1..NumReports

StatsAfterFailedPull_Cleared(s) == << >>

\* a pull that fails stores nothing
StatsAfterFailedPull(s) == s

\* start_monitoring spawns the task, which creates its interval
StartMonitoring ==
    /\ poll_pc = "not_started"
    /\ poll_pc' = "tick"
    /\ UNCHANGED << stats, ticks, observed, last_good, last_pull, dropVars >>
    /\ UNCHANGED << appVars, monVars, qualVars, roomVars, codecVars, clientVars >>

\* interval.tick() completes
Tick ==
    /\ poll_pc = "tick"
    /\ ticks < MaxTicks
    /\ poll_pc' = "pull"
    /\ ticks' = ticks + 1
    /\ UNCHANGED << stats, observed, last_good, last_pull, dropVars >>
    /\ UNCHANGED << appVars, monVars, qualVars, roomVars, codecVars, clientVars >>

\* get_stats returns a report, which replaces the stored one
PullOk(report) ==
    /\ poll_pc = "pull"
    /\ stats' = << report >>
    /\ poll_pc' = "tick"
    /\ last_good' = << report >>
    /\ last_pull' = "ok"
    /\ UNCHANGED << ticks, observed, dropVars >>
    /\ UNCHANGED << appVars, monVars, qualVars, roomVars, codecVars, clientVars >>

\* get_stats fails: the loop goes on to its next tick
PullFail ==
    /\ poll_pc = "pull"
    /\ stats' = StatsAfterFailedPull(stats)
    /\ poll_pc' = "tick"
    /\ last_pull' = "failed"
    /\ UNCHANGED << ticks, observed, last_good, dropVars >>
    /\ UNCHANGED << appVars, monVars, qualVars, roomVars, codecVars, clientVars >>

\* get_current_stats returns a copy of the stored value
GetCurrentStats ==
    /\ ~monitor_dropped
    /\ observed' = stats
    /\ UNCHANGED << stats, poll_pc, ticks, last_good, last_pull, dropVars >>
    /\ UNCHANGED << appVars, monVars, qualVars, roomVars, codecVars, clientVars >>

\* cleanup_call sets webrtc to None: the WebRTCClient and its QualityMonitor
\* are dropped. The task that start_monitoring spawned is detached and owns
\* its own clones of the peer connection and of the stats mutex, so that
\* dropping the monitor changes nothing the task reads.
DropMonitor ==
    /\ poll_pc # "not_started"
    /\ ~monitor_dropped
    /\ monitor_dropped' = TRUE
    /\ ticks_at_drop' = ticks
    /\ UNCHANGED << stats, poll_pc, ticks, observed, last_good, last_pull >>
    /\ UNCHANGED << appVars, monVars, qualVars, roomVars, codecVars, clientVars >>

StatsInit ==
    /\ stats = << >>
    /\ poll_pc = "not_started"
    /\ ticks = 0
    /\ observed = << >>
    /\ last_good = << >>
    /\ last_pull = "none"
    /\ monitor_dropped = FALSE
    /\ ticks_at_drop = 0

NextStats ==
    \/ StartMonitoring
    \/ Tick
    \/ \E report \in Reports : PullOk(report)
    \/ PullFail
    \/ GetCurrentStats
    \/ DropMonitor

-----------------------------------------------------------------------------
ReconnectKinds == {"WebSocket", "Connection"}
\* one of the error kinds that take the dispatch's last arm
OtherKinds == {"Signaling"}
EngineTypes == {"Offer", "Answer", "IceCandidate"}
\* one of the variants that take the dispatch's last arm, which does nothing
IgnoredTypes == {"PeerList"}
Selections == (SUBSET RemotePeers) \ {{}}

Next ==
    \/ \E kind \in ReconnectKinds : ReconnectRefused(kind)
    \/ \E kind \in ReconnectKinds : ReconnectBegin(kind)
    \/ ReconnectConnected
    \/ ReconnectFailed
    \/ HandleWebRTCError
    \/ HandleAudioError
    \/ \E kind \in OtherKinds : HandleOtherError(kind)
    \/ ConnectOk
    \/ ConnectFail
    \/ \E selected_peers \in Selections : StartCallEngineFail(selected_peers)
    \/ \E selected_peers \in Selections : StartCallAudioFail(selected_peers)
    \/ \E selected_peers \in Selections : StartCall(selected_peers)
    \/ EndCallUser
    \/ OnError
    \/ OnConnectionLost
    \/ OnCallRequestEngineFail
    \/ \E from \in Callers, r \in RoomIds : OnCallRequest(from, r)
    \/ \E type \in EngineTypes : OnEngineMessageNoSession(type)
    \/ \E type \in EngineTypes : OnEngineMessageFail(type)
    \/ \E from \in Callers, r \in RoomIds : OnOffer(from, r)
    \/ \E type \in EngineTypes \ {"Offer"} : OnAnswerOrCandidate(type)
    \/ \E type \in IgnoredTypes : OnIgnored(type)
    \/ SenderWrites
    \/ SenderWriteFails

-----------------------------------------------------------------------------
(* Room: src/src/room/state.rs *)

\* ids of the peers that join and leave the room
RosterIds == {"p1", "p2"}
\* connection handles, the second component of a PeerConnection
Handles == {1, 2}
PeerConnections == RosterIds \X Handles

\* the fields of a Room that add_peer and remove_peer read or write
Room == [peers |-> peers, connected_pairs |-> connected_pairs]

\* peers.retain(|(id, _)| id != peer_id): the entries of other ids, in their order
RECURSIVE retain(_, _)
retain(v, peer_id_) ==
    IF v = << >> THEN << >>
    ELSE IF Head(v)[1] # peer_id_ THEN << Head(v) >> \o retain(Tail(v), peer_id_)
         ELSE retain(Tail(v), peer_id_)

add_peer_OffByOne(room, peer_connection) ==
    IF Len(room.peers) > MaxParticipants
    THEN [res |-> "Err(Room is full)", room |-> room]
    ELSE [res |-> "Ok",
          room |-> [room EXCEPT !.peers = Append(@, peer_connection)]]

add_peer(room, peer_connection) ==
    IF Len(room.peers) >= MaxParticipants
    THEN [res |-> "Err(Room is full)", room |-> room]
    ELSE [res |-> "Ok",
          room |-> [room EXCEPT !.peers = Append(@, peer_connection)]]

remove_peer_PairsKept(room, id) ==
    [room EXCEPT !.peers = retain(@, id)]

remove_peer(room, id) ==
    [peers |-> retain(room.peers, id),
     connected_pairs |-> {pr \in room.connected_pairs : pr[1] # id /\ pr[2] # id}]

AddPeer(peer_connection) ==
    LET r == add_peer(Room, peer_connection)
    IN  /\ peers' = r.room.peers
        /\ connected_pairs' = r.room.connected_pairs
        /\ room_ret' = [op |-> "add_peer", arg |-> peer_connection, res |-> r.res,
                        before |-> Room]
        /\ UNCHANGED << appVars, monVars, qualVars, statsVars, codecVars, clientVars >>

RemovePeer(id) ==
    LET r == remove_peer(Room, id)
    IN  /\ peers' = r.peers
        /\ connected_pairs' = r.connected_pairs
        /\ room_ret' = [op |-> "remove_peer", arg |-> << id, 0 >>, res |-> "()",
                        before |-> Room]
        /\ UNCHANGED << appVars, monVars, qualVars, statsVars, codecVars, clientVars >>

\* a pair is recorded as connected; the room's callers do this, for any two ids
InsertPair(p1, p2) ==
    /\ connected_pairs' = connected_pairs \cup {<< p1, p2 >>}
    /\ room_ret' = [op |-> "insert_pair", arg |-> << p1, 0 >>, res |-> "()",
                    before |-> Room]
    /\ UNCHANGED << peers, appVars, monVars, qualVars, statsVars, codecVars, clientVars >>

\* Room::new
RoomInit ==
    /\ peers = << >>
    /\ connected_pairs = {}
    /\ room_ret = [op |-> "new", arg |-> << "", 0 >>, res |-> "()",
                   before |-> [peers |-> << >>, connected_pairs |-> {}]]

NextRoom ==
    \/ \E pcn \in PeerConnections : AddPeer(pcn)
    \/ \E id \in RosterIds : RemovePeer(id)
    \/ \E p1 \in RosterIds, p2 \in RosterIds : InsertPair(p1, p2)

-----------------------------------------------------------------------------
(* The JSON form of SignalingMessage: src/src/signaling.rs:8-71 *)

\* the variants of the enum, in the order of their declaration
Variants ==
    << "Join", "Disconnect", "PeerList", "Offer", "Answer", "IceCandidate",
       "RequestPeerList", "InitiateCall", "MediaError", "EndCall", "CallRequest",
       "CallResponse", "Error", "ConnectionLost" >>

VariantNames == {Variants[i] : i \in 1..Len(Variants)}

\* the fields of a variant, each with its type, in the order of their declaration
Schema(variant) ==
    CASE variant = "Join" ->
            << << "room_id", "String" >>, << "peer_id", "String" >> >>
      [] variant = "Disconnect" ->
            << << "room_id", "String" >>, << "peer_id", "String" >> >>
      [] variant = "PeerList" ->
            << << "peers", "Vec<String>" >> >>
      [] variant = "Offer" ->
            << << "room_id", "String" >>, << "sdp", "String" >>,
               << "from_peer", "String" >>, << "to_peer", "String" >> >>
      [] variant = "Answer" ->
            << << "room_id", "String" >>, << "sdp", "String" >>,
               << "from_peer", "String" >>, << "to_peer", "String" >> >>
      [] variant = "IceCandidate" ->
            << << "room_id", "String" >>, << "candidate", "String" >>,
               << "from_peer", "String" >>, << "to_peer", "String" >> >>
      [] variant = "RequestPeerList" ->
            << >>
      [] variant = "InitiateCall" ->
            << << "peer_id", "String" >>, << "room_id", "String" >> >>
      [] variant = "MediaError" ->
            << << "error_type", "String" >>, << "description", "String" >>,
               << "peer_id", "String" >> >>
      [] variant = "EndCall" ->
            << << "room_id", "String" >>, << "peer_id", "String" >> >>
      [] variant = "CallRequest" ->
            << << "room_id", "String" >>, << "from_peer", "String" >>,
               << "to_peers", "Vec<String>" >> >>
      [] variant = "CallResponse" ->
            << << "room_id", "String" >>, << "from_peer", "String" >>,
               << "to_peer", "String" >>, << "accepted", "bool" >> >>
      [] variant = "Error" ->
            << << "message", "String" >> >>
      [] variant = "ConnectionLost" ->
            << << "peer_id", "String" >> >>

FieldNames(variant) == {Schema(variant)[i][1] : i \in 1..Len(Schema(variant))}

\* the name of the member that carries the variant: #[serde(tag = "message_type")]
Tag == "message_type"

\* JSON values
JString(str) == [t |-> "string", str |-> str]
JArray(items) == [t |-> "array", items |-> items]
JBool(b) == [t |-> "bool", b |-> b]
\* a JSON object is the sequence of its members, each << name, value >>
JObject(members) == [t |-> "object", members |-> members]
\* a frame whose text is not JSON
NotJson == [t |-> "invalid"]

\* Serialize of a field
FieldToJson(type, v) ==
    CASE type = "String" -> JString(v)
      [] type = "Vec<String>" -> JArray([i \in 1..Len(v) |-> JString(v[i])])
      [] type = "bool" -> JBool(v)

\* Deserialize of a field accepts the JSON value
FieldAccepts(type, j) ==
    CASE type = "String" -> j.t = "string"
      [] type = "Vec<String>" ->
            IF j.t = "array" THEN \A i \in 1..Len(j.items) : j.items[i].t = "string"
            ELSE FALSE
      [] type = "bool" -> j.t = "bool"

\* Deserialize of a field
FieldFromJson(type, j) ==
    CASE type = "String" -> j.str
      [] type = "Vec<String>" -> [i \in 1..Len(j.items) |-> j.items[i].str]
      [] type = "bool" -> j.b

\* serde_json::to_string of a SignalingMessage: the tag, then the fields
to_string(msg) ==
    LET fields == Schema(msg[Tag])
    IN  JObject(<< << Tag, JString(msg[Tag]) >> >> \o
                [i \in 1..Len(fields) |->
                    << fields[i][1], FieldToJson(fields[i][2], msg[fields[i][1]]) >>])

\* the positions of the members of an object that carry the name
MembersNamed(obj, name) == {i \in 1..Len(obj.members) : obj.members[i][1] = name}

\* the value of the only member of that name
MemberValue(obj, name) ==
    obj.members[CHOOSE i \in MembersNamed(obj, name) : TRUE][2]

\* the variant that an object stands for: a variant none of whose fields is
\* missing, whatever the tag says
VariantOf_Untagged(obj) ==
    LET fits == {i \in 1..Len(Variants) :
                    \A f \in FieldNames(Variants[i]) : MembersNamed(obj, f) # {}}
    IN  IF fits = {} THEN "" ELSE Variants[CHOOSE i \in fits : \A k \in fits : i <= k]

\* the variant that an object stands for: the one its tag names, "" if there is none
VariantOf(obj) ==
    IF Cardinality(MembersNamed(obj, Tag)) # 1 THEN ""
    ELSE LET tag == MemberValue(obj, Tag)
         IN  IF tag.t # "string" THEN ""
             ELSE IF tag.str \in VariantNames THEN tag.str ELSE ""

\* serde_json::from_str::<SignalingMessage>: Err unless the text is an object
\* whose tag names a variant and that has each field of the variant once, with
\* a value of the field's type; other members are ignored
from_str(json) ==
    IF json.t # "object" THEN [ok |-> FALSE]
    ELSE LET variant == VariantOf(json)
         IN  IF variant = "" THEN [ok |-> FALSE]
             ELSE LET fields == Schema(variant)
                      TypeOf(name) ==
                          fields[CHOOSE i \in 1..Len(fields) : fields[i][1] = name][2]
                  IN  IF \A i \in 1..Len(fields) :
                            /\ Cardinality(MembersNamed(json, fields[i][1])) = 1
                            /\ FieldAccepts(fields[i][2],
                                            MemberValue(json, fields[i][1]))
                      THEN [ok |-> TRUE,
                            msg |-> [name \in FieldNames(variant) \cup {Tag} |->
                                        IF name = Tag THEN variant
                                        ELSE FieldFromJson(TypeOf(name),
                                                           MemberValue(json, name))]]
                      ELSE [ok |-> FALSE]

\* values of the fields
Strings == {"a", "b"}
StringLists == {<< >>, << "a" >>, << "b", "a" >>}
ValuesOf(type) ==
    CASE type = "String" -> Strings
      [] type = "Vec<String>" -> StringLists
      [] type = "bool" -> BOOLEAN

\* the values of a variant with its first n fields set
RECURSIVE Filled(_, _)
Filled(variant, n) ==
    IF n = 0 THEN {(Tag :> variant)}
    ELSE {m @@ (Schema(variant)[n][1] :> v) :
             m \in Filled(variant, n - 1), v \in ValuesOf(Schema(variant)[n][2])}

\* the SignalingMessage values of a variant
MessagesOf(variant) == Filled(variant, Len(Schema(variant)))

Messages == UNION {MessagesOf(variant) : variant \in VariantNames}

\* frames that are no SignalingMessage: text that is not JSON, JSON that is no
\* object, an object without tag, a variant this client does not know, a field
\* of the wrong type, a missing field
MalformedFrames ==
    { NotJson,
      JString("Join"),
      JObject(<< << "room_id", JString("a") >>, << "peer_id", JString("b") >> >>),
      JObject(<< << Tag, JString("Hold") >>, << "peer_id", JString("a") >> >>),
      JObject(<< << Tag, JString("CallResponse") >>, << "room_id", JString("a") >>,
                 << "from_peer", JString("a") >>, << "to_peer", JString("b") >>,
                 << "accepted", JString("true") >> >>),
      JObject(<< << Tag, JString("Join") >>, << "room_id", JString("a") >> >>) }

\* a message is handed to the encoder
Compose(msg) ==
    /\ cmsg' = << msg >>
    /\ cjson' = << >>
    /\ cback' = << >>
    /\ UNCHANGED << appVars, monVars, qualVars, statsVars, roomVars, clientVars >>

\* signaling.rs:89 (sender task) and :118 (send)
Serialize ==
    /\ cmsg # << >>
    /\ cjson = << >>
    /\ cjson' = << to_string(cmsg[1]) >>
    /\ UNCHANGED << cmsg, cback >>
    /\ UNCHANGED << appVars, monVars, qualVars, statsVars, roomVars, clientVars >>

\* a frame that this client did not write arrives
ForeignFrame(frame) ==
    /\ cmsg' = << >>
    /\ cjson' = << frame >>
    /\ cback' = << >>
    /\ UNCHANGED << appVars, monVars, qualVars, statsVars, roomVars, clientVars >>

\* signaling.rs:102 (receiver task)
Deserialize ==
    /\ cjson # << >>
    /\ cback = << >>
    /\ cback' = << from_str(cjson[1]) >>
    /\ UNCHANGED << cmsg, cjson >>
    /\ UNCHANGED << appVars, monVars, qualVars, statsVars, roomVars, clientVars >>

CodecInit ==
    /\ cmsg = << >>
    /\ cjson = << >>
    /\ cback = << >>

NextCodec ==
    \/ \E msg \in Messages : Compose(msg)
    \/ Serialize
    \/ \E frame \in MalformedFrames : ForeignFrame(frame)
    \/ Deserialize

-----------------------------------------------------------------------------
(* One SignalingClient and its relay connection: src/src/signaling.rs:73-130 *)

\* the variables of the other components
restVars == << appVars, monVars, qualVars, statsVars, roomVars, codecVars >>

\* the message of the owner's next send: the sends alternate between two messages
NextOutbound ==
    IF send_ret.n % 2 = 0
    THEN [message_type |-> "Join", room_id |-> "a", peer_id |-> "b"]
    ELSE [message_type |-> "EndCall", room_id |-> "a", peer_id |-> "b"]

\* a frame that carries a variant of a later protocol version
UnknownVariantFrame ==
    JObject(<< << Tag, JString("Hold") >>, << "peer_id", JString("a") >> >>)

\* what the relay can emit next: the next of its messages, which alternate
\* between two, or a frame this client cannot decode
NextRelayFrames ==
    { to_string(IF Len(emitted) % 2 = 0
                THEN [message_type |-> "PeerList", peers |-> << "a" >>]
                ELSE [message_type |-> "ConnectionLost", peer_id |-> "a"]),
      UnknownVariantFrame }

\* SignalingClient::send when the sender task holds outgoing_rx and the channel
\* has room (the call waits while the channel is full)
SendAccepted(msg) ==
    /\ ~client_dropped
    /\ send_ret.n < MaxSends
    /\ sender_pc # "done"
    /\ Len(outgoing) < QueueCap
    /\ outgoing' = Append(outgoing, msg)
    /\ submitted' = Append(submitted, msg)
    /\ send_ret' = [n |-> send_ret.n + 1, msg |-> << msg >>, res |-> "Ok"]
    /\ UNCHANGED << delivery, sender_pc, sender_msg, receiver_pc, receiver_msg, stream,
                    inbound, written, client_dropped, recv_ret, emitted, received >>
    /\ UNCHANGED restVars

\* SignalingClient::send when the sender task is gone: tx.send fails
SendFails_Queued(msg) ==
    /\ ~client_dropped
    /\ send_ret.n < MaxSends
    /\ sender_pc = "done"
    /\ outgoing' = Append(outgoing, msg)
    /\ send_ret' = [n |-> send_ret.n + 1, msg |-> << msg >>,
                    res |-> "Err(Signaling(Failed to send message))"]
    /\ UNCHANGED << delivery, sender_pc, sender_msg, receiver_pc, receiver_msg, stream,
                    inbound, written, client_dropped, recv_ret, submitted, emitted,
                    received >>
    /\ UNCHANGED restVars

SendFails(msg) ==
    /\ ~client_dropped
    /\ send_ret.n < MaxSends
    /\ sender_pc = "done"
    /\ send_ret' = [n |-> send_ret.n + 1, msg |-> << msg >>,
                    res |-> "Err(Signaling(Failed to send message))"]
    /\ UNCHANGED << outgoing, delivery, sender_pc, sender_msg, receiver_pc, receiver_msg,
                    stream, inbound, written, client_dropped, recv_ret, submitted,
                    emitted, received >>
    /\ UNCHANGED restVars

\* SignalingClient::receive yields the oldest buffered message
ReceiveSome ==
    /\ ~client_dropped
    /\ delivery # << >>
    /\ delivery' = Tail(delivery)
    /\ received' = Append(received, Head(delivery))
    /\ recv_ret' = "Ok(Some)"
    /\ UNCHANGED << outgoing, sender_pc, sender_msg, receiver_pc, receiver_msg, stream,
                    inbound, written, client_dropped, send_ret, submitted, emitted >>
    /\ UNCHANGED restVars

\* SignalingClient::receive when the channel is empty and the receiver task,
\* which holds tx, is gone (the call waits while the task lives)
ReceiveNone ==
    /\ ~client_dropped
    /\ delivery = << >>
    /\ receiver_pc = "done"
    /\ recv_ret' = "Ok(None)"
    /\ UNCHANGED << outgoing, delivery, sender_pc, sender_msg, receiver_pc, receiver_msg,
                    stream, inbound, written, client_dropped, send_ret, submitted,
                    emitted, received >>
    /\ UNCHANGED restVars

\* the client is dropped: outgoing_tx and rx go, and with rx what it buffers
DropClient ==
    /\ ~client_dropped
    /\ client_dropped' = TRUE
    /\ delivery' = << >>
    /\ UNCHANGED << outgoing, sender_pc, sender_msg, receiver_pc, receiver_msg, stream,
                    inbound, written, send_ret, recv_ret, submitted, emitted, received >>
    /\ UNCHANGED restVars

SenderTakes_Newest ==
    /\ sender_pc = "recv"
    /\ outgoing # << >>
    /\ sender_msg' = << outgoing[Len(outgoing)] >>
    /\ outgoing' = SubSeq(outgoing, 1, Len(outgoing) - 1)
    /\ sender_pc' = "write"
    /\ UNCHANGED << delivery, receiver_pc, receiver_msg, stream, inbound, written,
                    client_dropped, send_ret, recv_ret, submitted, emitted, received >>
    /\ UNCHANGED restVars

\* sender task: outgoing_rx.recv() yields the oldest message
SenderTakes ==
    /\ sender_pc = "recv"
    /\ outgoing # << >>
    /\ sender_msg' = << Head(outgoing) >>
    /\ outgoing' = Tail(outgoing)
    /\ sender_pc' = "write"
    /\ UNCHANGED << delivery, receiver_pc, receiver_msg, stream, inbound, written,
                    client_dropped, send_ret, recv_ret, submitted, emitted, received >>
    /\ UNCHANGED restVars

\* sender task: outgoing_rx.recv() yields None, the client is gone
SenderEnds ==
    /\ sender_pc = "recv"
    /\ outgoing = << >>
    /\ client_dropped
    /\ sender_pc' = "done"
    /\ UNCHANGED << outgoing, delivery, sender_msg, receiver_pc, receiver_msg, stream,
                    inbound, written, client_dropped, send_ret, recv_ret, submitted,
                    emitted, received >>
    /\ UNCHANGED restVars

\* sender task: the message is encoded and written to the transport
SenderWrite ==
    /\ sender_pc = "write"
    /\ stream = "open"
    /\ written' = Append(written, to_string(sender_msg[1]))
    /\ sender_msg' = << >>
    /\ sender_pc' = "recv"
    /\ UNCHANGED << outgoing, delivery, receiver_pc, receiver_msg, stream, inbound,
                    client_dropped, send_ret, recv_ret, submitted, emitted, received >>
    /\ UNCHANGED restVars

\* sender task: the write fails, the task breaks out of its loop and
\* outgoing_rx goes, and with it what it buffers
SenderWriteBreaks ==
    /\ sender_pc = "write"
    /\ stream # "open"
    /\ sender_msg' = << >>
    /\ sender_pc' = "done"
    /\ outgoing' = << >>
    /\ UNCHANGED << delivery, receiver_pc, receiver_msg, stream, inbound, written,
                    client_dropped, send_ret, recv_ret, submitted, emitted, received >>
    /\ UNCHANGED restVars

\* the relay emits a frame
RelayEmits(frame) ==
    /\ stream = "open"
    /\ Len(emitted) < MaxFrames
    /\ inbound' = Append(inbound, frame)
    /\ emitted' = Append(emitted, frame)
    /\ UNCHANGED << outgoing, delivery, sender_pc, sender_msg, receiver_pc, receiver_msg,
                    stream, written, client_dropped, send_ret, recv_ret, submitted,
                    received >>
    /\ UNCHANGED restVars

\* the relay closes the connection; what it emitted before can still be read
TransportCloses ==
    /\ stream = "open"
    /\ stream' = "closed"
    /\ UNCHANGED << outgoing, delivery, sender_pc, sender_msg, receiver_pc, receiver_msg,
                    inbound, written, client_dropped, send_ret, recv_ret, submitted,
                    emitted, received >>
    /\ UNCHANGED restVars

\* the transport fails; frames not yet read are lost
TransportErrors ==
    /\ stream = "open"
    /\ stream' = "error"
    /\ UNCHANGED << outgoing, delivery, sender_pc, sender_msg, receiver_pc, receiver_msg,
                    inbound, written, client_dropped, send_ret, recv_ret, submitted, emitted,
                    received >>
    /\ UNCHANGED restVars

\* what the receiver task does with a frame: a message to deliver, or nothing
AfterFrame_Breaks(frame) ==
    LET signal == from_str(frame)
    IN  IF signal.ok THEN [pc |-> "deliver", msg |-> << signal.msg >>]
        ELSE [pc |-> "done", msg |-> << >>]

AfterFrame(frame) ==
    LET signal == from_str(frame)
    IN  IF signal.ok THEN [pc |-> "deliver", msg |-> << signal.msg >>]
        ELSE [pc |-> "read", msg |-> << >>]

\* receiver task: read.next() yields a frame
ReceiverReads ==
    /\ receiver_pc = "read"
    /\ stream \in {"open", "closed"}
    /\ inbound # << >>
    /\ inbound' = Tail(inbound)
    /\ receiver_pc' = AfterFrame(Head(inbound)).pc
    /\ receiver_msg' = AfterFrame(Head(inbound)).msg
    /\ UNCHANGED << outgoing, delivery, sender_pc, sender_msg, stream, written,
                    client_dropped, send_ret, recv_ret, submitted, emitted, received >>
    /\ UNCHANGED restVars

\* receiver task: read.next() yields the transport's error, which the loop skips
ReceiverSkipsError ==
    /\ receiver_pc = "read"
    /\ stream = "error"
    /\ stream' = "ended"
    /\ inbound' = << >>
    /\ UNCHANGED << outgoing, delivery, sender_pc, sender_msg, receiver_pc, receiver_msg,
                    written, client_dropped, send_ret, recv_ret, submitted,
                    emitted, received >>
    /\ UNCHANGED restVars

\* receiver task: read.next() yields None, the loop ends and tx goes
ReceiverEnds ==
    /\ receiver_pc = "read"
    /\ inbound = << >>
    /\ stream \in {"closed", "ended"}
    /\ receiver_pc' = "done"
    /\ UNCHANGED << outgoing, delivery, sender_pc, sender_msg, receiver_msg, stream,
                    inbound, written, client_dropped, send_ret, recv_ret, submitted,
                    emitted, received >>
    /\ UNCHANGED restVars

\* receiver task: tx.send(signal) puts the message on the channel (it waits
\* while the channel is full)
ReceiverDelivers ==
    /\ receiver_pc = "deliver"
    /\ ~client_dropped
    /\ Len(delivery) < QueueCap
    /\ delivery' = Append(delivery, receiver_msg[1])
    /\ receiver_msg' = << >>
    /\ receiver_pc' = "read"
    /\ UNCHANGED << outgoing, sender_pc, sender_msg, stream, inbound, written,
                    client_dropped, send_ret, recv_ret, submitted, emitted, received >>
    /\ UNCHANGED restVars

\* receiver task: tx.send(signal) fails because rx is gone, the loop breaks
ReceiverDeliverBreaks ==
    /\ receiver_pc = "deliver"
    /\ client_dropped
    /\ receiver_msg' = << >>
    /\ receiver_pc' = "done"
    /\ UNCHANGED << outgoing, delivery, sender_pc, sender_msg, stream, inbound, written,
                    client_dropped, send_ret, recv_ret, submitted, emitted, received >>
    /\ UNCHANGED restVars

\* SignalingClient::connect returned Ok
ClientInit ==
    /\ outgoing = << >>
    /\ delivery = << >>
    /\ sender_pc = "recv"
    /\ sender_msg = << >>
    /\ receiver_pc = "read"
    /\ receiver_msg = << >>
    /\ stream = "open"
    /\ inbound = << >>
    /\ written = << >>
    /\ client_dropped = FALSE
    /\ send_ret = [n |-> 0, msg |-> << >>, res |-> ""]
    /\ recv_ret = ""
    /\ submitted = << >>
    /\ emitted = << >>
    /\ received = << >>

SenderTask == SenderTakes \/ SenderEnds \/ SenderWrite \/ SenderWriteBreaks

ReceiverTask ==
    \/ ReceiverReads
    \/ ReceiverSkipsError
    \/ ReceiverEnds
    \/ ReceiverDelivers
    \/ ReceiverDeliverBreaks

Receive == ReceiveSome \/ ReceiveNone

NextClient ==
    \/ SendAccepted(NextOutbound)
    \/ SendFails(NextOutbound)
    \/ ReceiveSome
    \/ ReceiveNone
    \/ DropClient
    \/ SenderTakes
    \/ SenderEnds
    \/ SenderWrite
    \/ SenderWriteBreaks
    \/ \E frame \in NextRelayFrames : RelayEmits(frame)
    \/ TransportCloses
    \/ TransportErrors
    \/ ReceiverReads
    \/ ReceiverSkipsError
    \/ ReceiverEnds
    \/ ReceiverDelivers
    \/ ReceiverDeliverBreaks

Init ==
    AppInit /\ MonInit /\ QualInit /\ StatsInit /\ RoomInit /\ CodecInit /\ ClientInit

Spec == Init /\ [][Next]_vars

SpecMonitor == Init /\ [][NextMonitor]_vars

SpecQuality == Init /\ [][NextQuality]_vars

SpecStats == Init /\ [][NextStats]_vars

\* the orchestrator in a runtime that may abort the sender task of a client
\* which connect has just returned
NextAborting == Next \/ ReconnectJoinRefused

SpecAborting == Init /\ [][NextAborting]_vars

SpecRoom == Init /\ [][NextRoom]_vars

SpecCodec == Init /\ [][NextCodec]_vars

SpecClient == Init /\ [][NextClient]_vars

\* the two tasks are scheduled by the runtime whenever they can run, and the
\* owner of the client keeps calling receive
SpecClientFair ==
    /\ SpecClient
    /\ WF_vars(SenderTask)
    /\ WF_vars(ReceiverTask)
    /\ WF_vars(Receive)

-----------------------------------------------------------------------------
(* Properties of reconnection, checked under Spec *)

\* the last operation that returned was a reconnect request
ReconnectReturned(res) ==
    /\ ret.op = "handle_connection_error"
    /\ ret.arg \in ReconnectKinds
    /\ ret.res = res

\* a step that is a reconnect request: the entry of reconnect, from the
\* error dispatch, with AppState free
ReconnectRequest == \E kind \in ReconnectKinds : ReconnectRefused(kind) \/ ReconnectBegin(kind)

\* a step of reconnect: its entry, or the end of its delay
ReconnectStep == ReconnectRequest \/ ReconnectConnected \/ ReconnectFailed

\* C1: in every reachable state the reconnect-attempt counter is between 0
\* and 5, and at most 5 relay connection attempts have been made in the
\* current failure episode.
C1_AttemptsBounded ==
    /\ reconnect_attempts \in 0..5
    /\ relay_contacts \in 0..5

\* the fifth attempt of an episode is in its delay
C1_Witness ==
    /\ pc = "reconnect_sleep"
    /\ reconnect_attempts = 5
    /\ relay_contacts = 4

\* C2: whenever the operation that returned last is a reconnect that
\* succeeded, the attempt counter is 0, whatever it was before.
C2_SuccessResets == ReconnectReturned("Ok") => reconnect_attempts = 0

\* a reconnect succeeded at the fifth attempt of an episode that followed an
\* earlier successful reconnect: the later episode had its 5 attempts again,
\* and the counter went from 5 to 0
C2_Witness ==
    /\ ReconnectReturned("Ok")
    /\ episodes_ok = 2
    /\ relay_contacts = 5
    /\ reconnect_attempts = 0

\* C3: once 5 attempts of an episode have failed, a reconnect request returns
\* the terminal max-attempts error and changes neither the counter nor the
\* signaling handle, and no step contacts the relay for a reconnect or moves
\* the counter off the cap.
C3_RefusedAtCap ==
    [][ (pc = "idle" /\ reconnect_attempts = 5) =>
            /\ ReconnectRequest =>
                  /\ ret'.res = "ErrMaxAttempts"
                  /\ UNCHANGED << signaling, reconnect_attempts, next_conn, pc >>
            /\ relay_contacts' = relay_contacts
            /\ pc' = "idle"
            /\ reconnect_attempts' = 5 ]_vars

\* a request was refused after the five attempts of an episode
C3_Witness ==
    /\ ReconnectReturned("ErrMaxAttempts")
    /\ reconnect_attempts = 5
    /\ relay_contacts = 5
    /\ ~episode_done

C5_ReconnectKeepsSession ==
    [][ ReconnectStep => UNCHANGED << webrtc, audio_capture >> ]_vars

\* a reconnect succeeded while no media session existed, and none exists
C5_Witness ==
    /\ ReconnectReturned("Ok")
    /\ webrtc = 0
    /\ audio_capture = 0
    /\ next_sess > 1

-----------------------------------------------------------------------------
(* Properties of ConnectionMonitor, checked under SpecMonitor *)

\* the monitor's last operation, once it has made one
LastOp == mon_log[Len(mon_log)]

\* this step is the operation op of the monitor
MonitorStep(op) ==
    /\ Len(mon_log') = Len(mon_log) + 1
    /\ mon_log'[Len(mon_log')].op = op

\* C6: set_error(m), in whatever top-level state it is applied, publishes a
\* status whose state is Failed and whose last_error is m, with the ICE,
\* peer and signaling sub-states as they were.
C6_SetErrorFails ==
    [][ MonitorStep("set_error") =>
            /\ status'.state = "Failed"
            /\ mon_log'[Len(mon_log')].state = "Failed"
            /\ status'.last_error = << mon_log'[Len(mon_log')].arg >>
            /\ status'.ice_state = status.ice_state
            /\ status'.peer_state = status.peer_state
            /\ status'.signaling_state = status.signaling_state ]_vars

\* set_error was applied to a Connected status
C6_Witness ==
    /\ Len(mon_log) >= 2
    /\ mon_log[Len(mon_log) - 1].state = "Connected"
    /\ LastOp.op = "set_error"
    /\ status.state = "Failed"
    /\ status.last_error = << "relay lost" >>

\* the top-level state that C7 names for an ICE sub-state
C7_Expected(ice, before) ==
    IF ice = "Connected" THEN "Connected"
    ELSE IF ice = "Failed" THEN "Failed"
    ELSE IF ice = "Disconnected" THEN "Disconnected"
    ELSE IF ice = "Checking" THEN "Connecting"
    ELSE before

\* the monitor has been driven by exactly the ICE sequence New, Checking, Connected
C7_Scenario ==
    /\ Len(mon_log) = 3
    /\ \A i \in 1..3 : mon_log[i].op = "update_ice_state"
    /\ mon_log[1].arg = "New"
    /\ mon_log[2].arg = "Checking"
    /\ mon_log[3].arg = "Connected"

\* C7: update_ice_state(s) records s as the ICE sub-state and sets the
\* top-level state to Connected, Failed, Disconnected or Connecting for
\* s = Connected, Failed, Disconnected or Checking, and leaves it unchanged
\* for every other s; from the initial status the ICE sequence New, Checking,
\* Connected publishes Disconnected, Connecting, Connected in that order.
C7_IceDerivation ==
    /\ [][ MonitorStep("update_ice_state") =>
             /\ status'.ice_state = mon_log'[Len(mon_log')].arg
             /\ status'.state = C7_Expected(status'.ice_state, status.state)
             /\ mon_log'[Len(mon_log')].state = status'.state ]_vars
    /\ [](C7_Scenario =>
             /\ mon_log[1].state = "Disconnected"
             /\ mon_log[2].state = "Connecting"
             /\ mon_log[3].state = "Connected"
             /\ status.state = "Connected"
             /\ status.ice_state = "Connected")

\* the scenario has run
C7_Witness == C7_Scenario /\ status.state = "Connected"

-----------------------------------------------------------------------------
(* Properties of the quality score, checked under SpecQuality *)

\* the band of an f64 below two thresholds given in tenths: a if it is below
\* t1, b if it is below t2, else c (NaN is below nothing)
C8_Band(x, t1, a, t2, b, c) ==
    IF ~x.nan /\ x.v < t1 THEN a
    ELSE IF ~x.nan /\ x.v < t2 THEN b
    ELSE c

\* the sum of the three bands that C8 names
C8_Rubric(rtt, jitter, loss) ==
    C8_Band(rtt, 1500, 40, 3000, 30, 20)
    + C8_Band(jitter, 300, 20, 500, 15, 10)
    + (IF ~loss.nan /\ loss.v < 10 THEN 40 ELSE C8_Band(loss, 30, 30, 50, 20, 10))

\* C8: once calculate_quality_score has run, quality_score is the sum of the
\* three bands of round_trip_time, jitter and packet_loss_rate, whatever the
\* other fields and the score before, and lies in 40..100.
C8_ScoreIsRubric ==
    scored =>
        /\ cq.quality_score = C8_Rubric(cq.round_trip_time, cq.jitter, cq.packet_loss_rate)
        /\ cq.quality_score \in 40..100

\* the worst connection was scored, with the other fields off their defaults
C8_Witness ==
    /\ scored
    /\ cq.round_trip_time = F(5000)
    /\ cq.jitter = F(1000)
    /\ cq.packet_loss_rate = NaN
    /\ cq.audio_level = F(0)
    /\ cq.bitrate = F(640)
    /\ cq.quality_score = 40

\* the metrics are rtt ms, jitter ms and loss tenths of a percent
C9_Sample(rtt, jitter, loss) ==
    /\ scored
    /\ cq.round_trip_time = F(10 * rtt)
    /\ cq.jitter = F(10 * jitter)
    /\ cq.packet_loss_rate = F(loss)

\* C9 as stated: rtt=100, jitter=10, loss=0.5 scores 100, and rtt=500,
\* jitter=100, loss=10 scores 50.
C9_AsStated ==
    /\ C9_Sample(100, 10, 5) => cq.quality_score = 100
    /\ C9_Sample(500, 100, 100) => cq.quality_score = 50

\* C9, amended: rtt=100, jitter=10, loss=0.5 scores 100, and rtt=500,
\* jitter=100, loss=10 scores 40 (20 + 10 + 10).
C9_Examples ==
    /\ C9_Sample(100, 10, 5) => cq.quality_score = 100
    /\ C9_Sample(500, 100, 100) => cq.quality_score = 40

\* the second example was scored
C9_Witness == C9_Sample(500, 100, 100) /\ cq.quality_score = 40

-----------------------------------------------------------------------------
(* Properties of the statistics polling task, checked under SpecStats *)

\* C10: the stored statistics are always the report of the last pull that
\* succeeded, or the initial None when none has: a failed pull neither
\* overwrites nor clears them, and after it the task is at its next tick or
\* in the pull that follows it.
C10_FailedPullKeepsStats ==
    /\ stats = last_good
    /\ last_pull = "failed" => poll_pc \in {"tick", "pull"}
    /\ observed # << >> => stats # << >>

\* a pull failed after one had succeeded, and the loop is at its next tick
C10_Witness ==
    /\ last_pull = "failed"
    /\ stats = << 1 >>
    /\ poll_pc = "tick"
    /\ observed = << 1 >>

-----------------------------------------------------------------------------
(* Properties of the room, checked under SpecRoom *)

\* the ids on a roster
RosterIdsOf(v) == {v[i][1] : i \in 1..Len(v)}

\* a pair names the id
References(pr, id) == pr[1] = id \/ pr[2] = id

\* C11: add_peer fails with "Room is full" exactly when the roster held
\* max_participants entries before the call, and then leaves the room as it
\* was; otherwise it succeeds and the roster is the old one with the peer at
\* its end; whatever is added and removed, the roster never holds more than
\* max_participants entries.
C11_AddPeerCapacity ==
    /\ Len(peers) <= MaxParticipants
    /\ room_ret.op = "add_peer" =>
          LET was == room_ret.before
              full == Len(was.peers) = MaxParticipants
          IN  /\ (room_ret.res = "Err(Room is full)") <=> full
              /\ (room_ret.res = "Ok") <=> ~full
              /\ full => peers = was.peers
              /\ ~full => /\ Len(peers) = Len(was.peers) + 1
                          /\ peers[Len(peers)] = room_ret.arg
                          /\ SubSeq(peers, 1, Len(was.peers)) = was.peers
              /\ connected_pairs = was.connected_pairs

\* add_peer was refused on a full roster that holds two different peers
C11_Witness ==
    /\ room_ret.op = "add_peer"
    /\ room_ret.res = "Err(Room is full)"
    /\ Len(peers) = MaxParticipants
    /\ peers[1][1] # peers[Len(peers)][1]

\* C12: after remove_peer(p) no roster entry has id p and no connected pair
\* names p, every other roster entry is kept in its order and every pair that
\* does not name p is kept; and no step takes p off the roster while leaving a
\* pair that names p.
C12_RemovePeerPurges ==
    /\ [](room_ret.op = "remove_peer" =>
            LET was == room_ret.before
                p == room_ret.arg[1]
                Other(e) == e[1] # p
            IN  /\ p \notin RosterIdsOf(peers)
                /\ \A pr \in connected_pairs : ~References(pr, p)
                /\ peers = SelectSeq(was.peers, Other)
                /\ \A pr \in was.connected_pairs :
                      ~References(pr, p) => pr \in connected_pairs
                /\ connected_pairs \subseteq was.connected_pairs)
    /\ [][\A p \in RosterIds :
            (p \in RosterIdsOf(peers) /\ p \notin RosterIdsOf(peers'))
                => \A pr \in connected_pairs' : ~References(pr, p)]_vars

\* remove_peer took a peer that was on the roster and in a connected pair, and
\* kept another roster entry and another pair
C12_Witness ==
    /\ room_ret.op = "remove_peer"
    /\ room_ret.arg[1] \in RosterIdsOf(room_ret.before.peers)
    /\ \E pr \in room_ret.before.connected_pairs : References(pr, room_ret.arg[1])
    /\ peers # << >>
    /\ connected_pairs # {}

-----------------------------------------------------------------------------
(* Properties of the JSON form, checked under SpecCodec *)

\* the frame is the encoding of the message that was composed, and was decoded
RoundTripDone == cmsg # << >> /\ cjson # << >> /\ cback # << >>

\* C13: for every SignalingMessage value of each of the 14 variants, the
\* encoding is an object whose message_type member names the variant, decoding
\* it succeeds and yields the value that was encoded, and hence a value of the
\* same variant.
C13_RoundTrip ==
    /\ Len(Variants) = 14
    /\ Cardinality(VariantNames) = 14
    /\ (cmsg # << >> /\ cjson # << >>) =>
          /\ cjson[1].t = "object"
          /\ cjson[1].members[1] = << Tag, JString(cmsg[1][Tag]) >>
    /\ RoundTripDone =>
          /\ cback[1].ok
          /\ cback[1].msg = cmsg[1]
          /\ cback[1].msg[Tag] = cmsg[1][Tag]

\* an EndCall, whose fields are those of Join and of Disconnect, was encoded
\* and decoded
C13_Witness ==
    /\ RoundTripDone
    /\ cmsg[1][Tag] = "EndCall"
    /\ cback[1].ok

-----------------------------------------------------------------------------
(* Properties of the signaling client, checked under SpecClient *)

\* the messages that a sequence of frames decodes to, in order
RECURSIVE Decodable(_)
Decodable(frames) ==
    IF frames = << >> THEN << >>
    ELSE IF from_str(Head(frames)).ok
         THEN << from_str(Head(frames)).msg >> \o Decodable(Tail(frames))
         ELSE Decodable(Tail(frames))

IsPrefix(a, b) == Len(a) <= Len(b) /\ a = SubSeq(b, 1, Len(a))

\* C14: the frames written to the transport are the encodings of the first
\* accepted messages in the order send accepted them, and while the sender
\* task lives every accepted message is either written, held by the task or
\* waiting in the queue, once and in that order; what receive yielded, followed
\* by what is buffered for it, is an initial part of the messages the relay
\* emitted, in their order; neither channel holds more than its capacity.
C14_OrderPreserved ==
    /\ Len(written) <= Len(submitted)
    /\ \A i \in 1..Len(written) : written[i] = to_string(submitted[i])
    /\ sender_pc # "done" =>
          Decodable(written) \o sender_msg \o outgoing = submitted
    /\ IsPrefix(received, Decodable(emitted))
    /\ ~client_dropped =>
          IsPrefix(received \o delivery \o receiver_msg, Decodable(emitted))
    /\ Len(outgoing) <= QueueCap
    /\ Len(delivery) <= QueueCap

\* two different messages were written and two different messages were
\* received, while a third accepted message waits
C14_Witness ==
    /\ Len(written) = 2
    /\ written[1] # written[2]
    /\ Len(submitted) = 3
    /\ Len(received) = 2
    /\ received[1] # received[2]

\* C15: when the receiver task reads a frame that does not decode, it stays in
\* its loop and nothing but the frame's removal happens: nothing is put on the
\* delivery channel or yielded by receive, the transport, the sender side and
\* the orchestrator's state are as before; and once the receiver task has
\* handled all that the relay emitted on a live connection and receive has
\* taken all that was buffered, receive has yielded every message the relay
\* emitted, in order, whatever undecodable frames came between them.
C15_MalformedDropped ==
    /\ [][(/\ receiver_pc = "read"
           /\ stream \in {"open", "closed"}
           /\ inbound # << >>
           /\ inbound' = Tail(inbound)
           /\ ~from_str(Head(inbound)).ok)
          => /\ receiver_pc' = "read"
             /\ UNCHANGED << receiver_msg, delivery, received, recv_ret, stream,
                             outgoing, sender_pc, sender_msg, written, client_dropped,
                             send_ret, appVars, monVars >>]_vars
    /\ []((/\ stream = "open"
           /\ ~client_dropped
           /\ inbound = << >>
           /\ receiver_pc = "read"
           /\ delivery = << >>)
          => received = Decodable(emitted))

\* the relay emitted a message, a frame that does not decode and another
\* message, and receive yielded both messages
C15_Witness ==
    /\ Len(emitted) = 3
    /\ from_str(emitted[1]).ok
    /\ ~from_str(emitted[2]).ok
    /\ from_str(emitted[3]).ok
    /\ Len(received) = 2
    /\ receiver_pc = "read"

\* C16: once the transport has failed or closed, the sender task and the
\* receiver task both terminate, the delivery channel is closed so that
\* receive reports end-of-stream, and the outbound path is closed.
C16_BothTasksTerminate ==
    (stream # "open") ~> (sender_pc = "done" /\ receiver_pc = "done")

\* C17: a send on a client whose sender task is gone fails, and it is the only
\* send that fails; the step changes neither channel, nor what was written to
\* the transport, nor the orchestrator's reconnect counter; and from then on
\* nothing is written and nothing enters the outbound channel.
C17_SendOnClosedFails ==
    /\ [][send_ret'.n # send_ret.n =>
            /\ (send_ret'.res = "Ok") <=> (sender_pc # "done")
            /\ (send_ret'.res = "Err(Signaling(Failed to send message))")
                  <=> (sender_pc = "done")
            /\ sender_pc = "done" =>
                  UNCHANGED << outgoing, delivery, written, submitted, sender_pc,
                               sender_msg, receiver_pc, stream, reconnect_attempts >>]_vars
    /\ [][sender_pc = "done" =>
            /\ sender_pc' = "done"
            /\ written' = written
            /\ outgoing' = << >>]_vars

\* a send failed on a client that had transmitted a message before
C17_Witness ==
    /\ send_ret.res = "Err(Signaling(Failed to send message))"
    /\ Len(written) >= 1
    /\ sender_pc = "done"

-----------------------------------------------------------------------------
(* Properties of the handling of inbound messages, checked under Spec *)

\* this step is handle_signaling_message returning for a message of the type
Handled(type) ==
    /\ ret' # ret
    /\ ret'.op = "handle_signaling_message"
    /\ ret'.arg = type

\* this step hands exactly one message of the type to the installed client,
\* addressed to the peer
RepliesWith(type, to) ==
    /\ signaling # << >>
    /\ signaling' # << >>
    /\ signaling'[1].id = signaling[1].id
    /\ Len(signaling'[1].out) = Len(signaling[1].out) + 1
    /\ LET m == signaling'[1].out[Len(signaling'[1].out)]
       IN  /\ m.message_type = type
           /\ m.to_peer = to
           /\ m.from_peer = peer_id

\* the installed client accepts a send
CanSend == IF signaling = << >> THEN FALSE ELSE ~signaling[1].closed

\* C18: when a CallRequest is handled successfully and there was no media
\* session, afterwards there is a session and a capture handle attached to
\* it; when there was a session, both handles are as before and a
\* CallResponse is sent to the requester.
C18_CallRequestAttachesCapture ==
    [][(Handled("CallRequest") /\ ret'.res = "Ok") =>
          IF webrtc = 0
          THEN webrtc' # 0 /\ audio_capture' = webrtc'
          ELSE /\ webrtc' = webrtc
               /\ audio_capture' = audio_capture
               /\ CanSend => \E to \in Callers : RepliesWith("CallResponse", to)]_vars

\* C19: when an Offer is handled successfully and there was no media session,
\* afterwards there is a session, and with a session already present the
\* session handle is as before; in both cases, when the installed client
\* accepts a send, one Answer is sent to the offering peer.
C19_OfferAnswered ==
    [][(Handled("Offer") /\ ret'.res = "Ok") =>
          /\ IF webrtc = 0 THEN webrtc' # 0 ELSE webrtc' = webrtc
          /\ CanSend => \E to \in Callers : RepliesWith("Answer", to)]_vars

\* C20: an Answer or an IceCandidate that is handled while there is no media
\* session returns Ok, and the step sends nothing and changes no field of
\* AppState, so that nothing of the message is kept for a later session.
C20_DroppedWithoutSession ==
    [][\A type \in {"Answer", "IceCandidate"} :
          (Handled(type) /\ webrtc = 0) =>
              /\ ret'.res = "Ok"
              /\ UNCHANGED << signaling, webrtc, audio_capture, peer_id, room_id,
                              reconnect_attempts >>]_vars

\* an IceCandidate was handled on a connected client that has no session but
\* had one before
C20_Witness ==
    /\ ret = Result("handle_signaling_message", "IceCandidate", "Ok")
    /\ webrtc = 0
    /\ next_sess > 1
    /\ signaling # << >>

-----------------------------------------------------------------------------
(* Properties of call teardown and of error handling, checked under Spec *)

\* the operation that returned last tears a call down
TeardownReturned ==
    \/ ret.op = "end_call"
    \/ ret = Result("handle_connection_error", "WebRTC", "ErrWebRTC")
    \/ ret = Result("handle_signaling_message", "ConnectionLost", "Ok")

\* C21: after an inbound ConnectionLost, a user end-call or a fatal
\* media-engine error, neither a media session nor a capture handle is
\* present, whether there is a signaling client to notify, and whether its
\* outbound path is open, or not; and handling ConnectionLost when there is no
\* session changes no field of AppState, so nothing is sent.
C21_TeardownClearsHandles ==
    /\ [](TeardownReturned => (webrtc = 0 /\ audio_capture = 0))
    /\ [][(Handled("ConnectionLost") /\ webrtc = 0) =>
             UNCHANGED << signaling, webrtc, audio_capture, peer_id, room_id,
                          reconnect_attempts >>]_vars

\* a call was ended by the user on a client whose outbound path had closed, so
\* that the EndCall notification could not be sent
C21_Witness ==
    /\ ret.op = "end_call"
    /\ next_sess > 1
    /\ IF signaling = << >> THEN FALSE ELSE signaling[1].closed

\* this step is the user's start-call returning
StartCallReturned == ret' # ret /\ ret'.op = "start_call"

\* this step hands exactly one CallRequest for the current room, from the
\* local peer, to the installed client
SendsOneCallRequest ==
    /\ signaling # << >>
    /\ signaling' # << >>
    /\ signaling'[1].id = signaling[1].id
    /\ Len(signaling'[1].out) = Len(signaling[1].out) + 1
    /\ LET m == signaling'[1].out[Len(signaling'[1].out)]
       IN  /\ m.message_type = "CallRequest"
           /\ m.room_id = room_id
           /\ m.from_peer = peer_id
           /\ m.to_peers \in Selections

\* C22: the user's start-call creates a media session only when a signaling
\* client is connected and there was no session; when it succeeds, a media
\* session and a capture attached to it are present and one CallRequest was
\* handed to the signaling client; and it never leaves a session present while
\* no signaling client is connected.
C22_StartCallContract ==
    [][StartCallReturned =>
          /\ webrtc' # webrtc => (webrtc = 0 /\ signaling # << >>)
          /\ ret'.res = "Ok" =>
                /\ webrtc' # 0
                /\ audio_capture' = webrtc'
                /\ SendsOneCallRequest
          /\ webrtc' # 0 => signaling' # << >>]_vars

\* the signaling handle is the one it was (what its client has queued may differ)
SameHandle ==
    IF signaling = << >> THEN signaling' = << >>
    ELSE IF signaling' = << >> THEN FALSE
         ELSE signaling'[1].id = signaling[1].id

C24_AudioErrorSuppressed ==
    /\ ret.res # "ErrAudio"
    /\ (ret.op = "handle_connection_error" /\ ret.arg = "Audio") => ret.res = "Ok"

\* C25: a transport error that is handled enters reconnect, and it is returned
\* to the caller as an error only when the retry budget is used up: an error
\* result with attempts remaining does not occur.
C25_OnlyExhaustionSurfaced ==
    (/\ ret.op = "handle_connection_error"
     /\ ret.arg \in ReconnectKinds
     /\ ret.res \notin {"pending", "Ok"})
    => AtCap(reconnect_attempts)

C27_PollingCancelled ==
    monitor_dropped => ticks <= ticks_at_drop + 1

\* C29: in every reachable state an audio-capture handle is present only if
\* a media-session handle is present.
C29_CaptureOnlyWithSession ==
    audio_capture # 0 => webrtc # 0

\* a capture is attached to a session that was created after an earlier call
\* had been torn down
C29_Witness ==
    /\ audio_capture # 0
    /\ webrtc = audio_capture
    /\ next_sess > 2

\* C30: when a reconnect attempt has its relay connection accepted and the
\* Join is refused on it, the attempt returns an error, the signaling handle
\* stored before is still the stored one, and the counter keeps the value that
\* the attempt gave it (it is not 0); and reconnect changes the stored handle
\* only in a step that returns Ok and that has put the Join on the new handle.
C30_JoinRefusedKeepsHandle ==
    [][pc = "reconnect_sleep" =>
          /\ (pc' = "idle" /\ ret'.res = "ErrSend") =>
                /\ signaling' = signaling
                /\ reconnect_attempts' = reconnect_attempts
                /\ reconnect_attempts' > 0
                /\ next_conn' = next_conn + 1
          /\ ~SameHandle =>
                /\ ret'.res = "Ok"
                /\ signaling'[1].out = << Join(room_id, peer_id) >>]_vars

\* the Join was refused on the new connection while an earlier handle was
\* stored
C30_Witness ==
    /\ ret.op = "handle_connection_error"
    /\ ret.arg \in ReconnectKinds
    /\ ret.res = "ErrSend"
    /\ signaling # << >>
    /\ reconnect_attempts > 0

\* the positions of the set_error calls among the monitor's operations so far
SetErrorCalls == {i \in 1..Len(mon_log) : mon_log[i].op = "set_error"}

\* the message of the most recent set_error
LatestErrorMessage ==
    mon_log[CHOOSE i \in SetErrorCalls : \A j \in SetErrorCalls : j <= i].arg

\* C31: once set_error has recorded an error, last_error is present and holds
\* the message of the most recent set_error, whatever update_state,
\* update_ice_state, update_peer_state and update_signaling_state calls came
\* after it; and no operation other than set_error changes last_error.
C31_ErrorNeverCleared ==
    /\ [](SetErrorCalls # {} => status.last_error = << LatestErrorMessage >>)
    /\ [][(status'.last_error # status.last_error) => MonitorStep("set_error")]_vars

\* two errors were recorded and an ICE transition to Connected then made the
\* top-level state Connected again
C31_Witness ==
    /\ Len(mon_log) = 3
    /\ mon_log[1].op = "set_error" /\ mon_log[1].arg = "relay lost"
    /\ mon_log[2].op = "set_error" /\ mon_log[2].arg = "engine failed"
    /\ mon_log[3].op = "update_ice_state" /\ mon_log[3].arg = "Connected"
    /\ status.state = "Connected"
    /\ status.last_error = << "engine failed" >>

=============================================================================
